---------------------------- MODULE Spec2Model ----------------------------
(***************************************************************************)
(* AutoRepo-Worker 0.0.2 "aequalis" (src/worker.js, lines 1-548): the      *)
(* webhook pipeline handleRequest and the functions it calls.              *)
(*                                                                         *)
(* Text is modelled as a sequence of one-character strings, so that        *)
(* toLowerCase, trim, split, indexOf and startsWith are computed the way   *)
(* the JavaScript computes them.  An optional value (a header that may be  *)
(* missing, a JSON member that may be absent) is a sequence of length 0    *)
(* or 1.  HMAC-SHA256 is modelled as a perfect MAC: the tag of (secret,    *)
(* message) is the pair itself, so two tags agree exactly when the secret  *)
(* and the message agree.                                                  *)
(***************************************************************************)
EXTENDS Integers, Sequences, FiniteSets, TLC

(***************************************************************************)
(* JavaScript string primitives                                            *)
(***************************************************************************)
UpperChars == <<"A","B","C","D","E","F","G","H","I","J","K","L","M",
                "N","O","P","Q","R","S","T","U","V","W","X","Y","Z">>

LowerChars == <<"a","b","c","d","e","f","g","h","i","j","k","l","m",
                "n","o","p","q","r","s","t","u","v","w","x","y","z">>

UpperSet == {UpperChars[i] : i \in 1..Len(UpperChars)}

\* the lower-case letter of each upper-case letter
LowerOf ==
    [c \in UpperSet |->
        LowerChars[CHOOSE i \in 1..Len(UpperChars) : UpperChars[i] = c]]

\* String.prototype.toLowerCase on one character
LowerChar(c) == IF c \in UpperSet THEN LowerOf[c] ELSE c

\* String.prototype.toLowerCase
toLowerCase(s) == [i \in 1..Len(s) |-> LowerChar(s[i])]

\* the characters String.prototype.trim removes
IsSpace(c) == c \in {" ", "\n", "\r", "\t"}

RECURSIVE trimStart(_)
trimStart(s) ==
    IF s # <<>> /\ IsSpace(Head(s)) THEN trimStart(Tail(s)) ELSE s

RECURSIVE trimEnd(_)
trimEnd(s) ==
    IF s # <<>> /\ IsSpace(s[Len(s)])
    THEN trimEnd(SubSeq(s, 1, Len(s) - 1))
    ELSE s

\* String.prototype.trim
trim(s) == trimEnd(trimStart(s))

\* s.replace(/(\r\n|\n|\r)/gm, "")
stripLineBreaks(s) == SelectSeq(s, LAMBDA c : c \notin {"\n", "\r"})

\* String.prototype.startsWith
startsWith(s, p) == Len(p) <= Len(s) /\ SubSeq(s, 1, Len(p)) = p

\* the 0-based position of the first occurrence of sub in s at or after the
\* 1-based position i, -1 when there is none
RECURSIVE indexFrom(_, _, _)
indexFrom(s, sub, i) ==
    IF i + Len(sub) - 1 > Len(s) THEN -1
    ELSE IF SubSeq(s, i, i + Len(sub) - 1) = sub THEN i - 1
    ELSE indexFrom(s, sub, i + 1)

\* String.prototype.indexOf, 0-based, -1 when sub does not occur
indexOf(s, sub) == indexFrom(s, sub, 1)

\* String.prototype.split with a non-empty separator: always at least one part
RECURSIVE split(_, _)
split(s, sep) ==
    LET k == indexOf(s, sep)
    IN  IF k = -1 THEN <<s>>
        ELSE <<SubSeq(s, 1, k)>> \o split(SubSeq(s, k + Len(sep) + 1, Len(s)), sep)

\* faulty variant of join: only the last part is kept
join_last(parts, sep) == IF parts = <<>> THEN <<>> ELSE parts[Len(parts)]

\* Array.prototype.join
RECURSIVE join(_, _)
join(parts, sep) ==
    IF parts = <<>> THEN <<>>
    ELSE IF Len(parts) = 1 THEN parts[1]
    ELSE parts[1] \o sep \o join(Tail(parts), sep)

\* Array.prototype.includes
includes(arr, x) == \E i \in 1..Len(arr) : arr[i] = x

\* Array.prototype.indexOf, 0-based, -1 when x is no element
arrayIndexOf(arr, x) == indexFrom(arr, <<x>>, 1)

\* arr.map(part => part.trim())
trimEach(arr) == [i \in 1..Len(arr) |-> trim(arr[i])]


(***************************************************************************)
(* Literals of the worker                                                  *)
(***************************************************************************)
S_trigger == <<"t","r","i","g","g","e","r">>

S_allowed_repos == <<"a","l","l","o","w","e","d","_","r","e","p","o","s">>

S_allowed_repos_for_users ==
    <<"a","l","l","o","w","e","d","_","r","e","p","o","s",
      "_","f","o","r","_","u","s","e","r","s">>

S_ALLOWED_REPOS == <<"A","L","L","O","W","E","D","_","R","E","P","O","S">>

S_ALLOWED_REPOS_FOR_USERS ==
    <<"A","L","L","O","W","E","D","_","R","E","P","O","S",
      "_","F","O","R","_","U","S","E","R","S">>

S_Hookshot == <<"G","i","t","H","u","b","-","H","o","o","k","s","h","o","t">>

S_sha256 == <<"s","h","a","2","5","6","=">>

S_main == <<"m","a","i","n">>

S_test == <<"t","e","s","t">>

S_target_name == <<"t","a","r","g","e","t","_","n","a","m","e">>

S_undefined == <<"u","n","d","e","f","i","n","e","d">>

\* const version
version == <<"0",".","0",".","2"," ","a","e","q","u","a","l","i","s">>

\* the status get_allowed_keys expects of the key store
StatusOk == 200

\* the status post_comment_on_repo expects of the comment endpoint
StatusCreated == 201

(***************************************************************************)
(* Values returned by the worker's functions.  A function that returns     *)
(* "Response | value" returns a record that says which of the two it is;   *)
(* a function that can throw says so in threw.                             *)
(***************************************************************************)
NoText == <<>>

\* new Response("{'error': ...}") with the two detail members of
\* Non-Permissible Repository for Key
ErrorResponse(error, key, repos) ==
    [kind |-> "error", error |-> error, key |-> key, repos |-> repos,
     trigger |-> <<>>]

\* new Response(JSON.stringify(trigger_data, null, 4))
TriggerResponse(trigger_data) ==
    [kind |-> "trigger", error |-> "", key |-> NoText, repos |-> NoText,
     trigger |-> <<trigger_data>>]

\* an exception that leaves handleRequest
\* new Response(null, {status: 405, statusText: 'Method Not Allowed'})
MethodNotAllowed ==
    [kind |-> "method_not_allowed", error |-> "", key |-> NoText,
     repos |-> NoText, trigger |-> <<>>]

keys_url ==
    <<"h","t","t","p","s",":","/","/","a","p","i",".","g","i","t","h","u",
      "b",".","c","o","m","/","r","e","p","o","s","/","J","u","s","t","-",
      "S","o","m","e","-","P","l","u","g","i","n","s","/","A","u","t","o",
      "R","e","p","o","/","a","c","t","i","o","n","s","/","v","a","r","i",
      "a","b","l","e","s">>

comment_url ==
    <<"h","t","t","p","s",":","/","/","a","p","i",".","g","i","t","h","u",
      "b",".","c","o","m","/","r","e","p","o","s","/","J","u","s","t","-",
      "S","o","m","e","-","P","l","u","g","i","n","s","/","A","u","t","o",
      "R","e","p","o","/","i","s","s","u","e","s","/","1","/","c","o","m",
      "m","e","n","t","s">>

Thrown ==
    [kind |-> "exception", error |-> "", key |-> NoText, repos |-> NoText,
     trigger |-> <<>>]

NoResponse ==
    [kind |-> "none", error |-> "", key |-> NoText, repos |-> NoText,
     trigger |-> <<>>]

(***************************************************************************)
(* get_url_parts                                                           *)
(***************************************************************************)
\* inputString.replace(/^\/|\/$/g, ''): one leading and one trailing slash
stripSlashes(s) ==
    LET a == IF s # <<>> /\ Head(s) = "/" THEN Tail(s) ELSE s
    IN  IF a # <<>> /\ a[Len(a)] = "/" THEN SubSeq(a, 1, Len(a) - 1) ELSE a

\* faulty variant of get_url_parts: the empty segments are kept
get_url_parts_noFilter(inputString) ==
    LET cleanedString == toLowerCase(stripSlashes(inputString))
        parts == split(cleanedString, <<"/">>)
        triggerIndex == arrayIndexOf(parts, S_trigger)
    IN  IF triggerIndex # -1 /\ triggerIndex < Len(parts) - 1
        THEN SubSeq(parts, triggerIndex + 2, Len(parts))
        ELSE <<>>

get_url_parts(inputString) ==
    LET cleanedString == toLowerCase(stripSlashes(inputString))
        parts == split(cleanedString, <<"/">>)
        triggerIndex == arrayIndexOf(parts, S_trigger)
    IN  IF triggerIndex # -1 /\ triggerIndex < Len(parts) - 1
        THEN SelectSeq(SubSeq(parts, triggerIndex + 2, Len(parts)),
                       LAMBDA part : trim(part) # <<>>)
        ELSE <<>>

(***************************************************************************)
(* The keys object: an insertion-ordered map from name to value            *)
(***************************************************************************)
hasKey(keys, name) == \E i \in 1..Len(keys) : keys[i].name = name

\* faulty variant of setKey: a known name keeps its first value
setKey_keepFirst(keys, name, value) ==
    IF hasKey(keys, name) THEN keys
    ELSE Append(keys, [name |-> name, value |-> value])

\* keys[name] = value: a new name is appended, a known name keeps its place
setKey(keys, name, value) ==
    IF hasKey(keys, name)
    THEN [i \in 1..Len(keys) |->
            IF keys[i].name = name THEN [name |-> name, value |-> value]
            ELSE keys[i]]
    ELSE Append(keys, [name |-> name, value |-> value])

\* key["name"].charAt(0) + key["name"].slice(1).toLowerCase()
normalizeName(name) ==
    IF name = <<>> THEN <<>> ELSE <<Head(name)>> \o toLowerCase(Tail(name))

RECURSIVE parseKeys(_, _)
parseKeys(variables, keys) ==
    IF variables = <<>> THEN keys
    ELSE parseKeys(Tail(variables),
                   setKey(keys, normalizeName(Head(variables).name),
                          Head(variables).value))

\* faulty variant of get_allowed_keys: an empty map is returned as it is (the
\* test "keys === {}" of the first worker never holds)
get_allowed_keys_noEmptyCheck(keys_response) ==
    IF keys_response.status # StatusOk
    THEN [isResponse |-> TRUE,
          response |-> ErrorResponse("Broken GitHub Secrets", NoText, NoText),
          keys |-> <<>>]
    ELSE [isResponse |-> FALSE, response |-> NoResponse,
          keys |-> parseKeys(keys_response.variables, <<>>)]

\* get_allowed_keys, given the key store's answer to the one GET it makes
get_allowed_keys(keys_response) ==
    IF keys_response.status # StatusOk
    THEN [isResponse |-> TRUE,
          response |-> ErrorResponse("Broken GitHub Secrets", NoText, NoText),
          keys |-> <<>>]
    ELSE LET keys == parseKeys(keys_response.variables, <<>>)
         IN  IF Len(keys) = 0
             THEN [isResponse |-> TRUE,
                   response |-> ErrorResponse("No GitHub Secrets", NoText, NoText),
                   keys |-> <<>>]
             ELSE [isResponse |-> FALSE, response |-> NoResponse, keys |-> keys]

(***************************************************************************)
(* verifySignature and verify_key                                          *)
(***************************************************************************)
\* HMAC-SHA256 of msg under secret
Hmac(secret, msg) == [key |-> secret, msg |-> msg]

\* verifySignature: crypto.subtle.importKey rejects a zero-length HMAC key
\* (DataError); a header without "=" leaves parts[1] undefined and hexToBytes
\* reads the length of undefined (TypeError); nothing catches either.
\* crypto.subtle.verify compares the tag carried after "=" in the header with
\* the HMAC of the payload.  Hex digits that decode to no tag of a secret at
\* hand (an odd number of digits, for which new Uint8Array truncates the
\* length, or non-hex digits, which parseInt turns into NaN and the array
\* stores as 0) do not throw and do not verify.
verifySignature(secret, header, payload) ==
    [threw |-> secret = <<>> \/ header.tag = <<>>,
     verified |-> /\ secret # <<>>
                  /\ header.tag # <<>>
                  /\ header.tag = <<Hmac(secret, payload)>>]

\* the test of "Skip meta variables": key holds the entry's value here
skipsEntry(name, key) ==
    key = S_ALLOWED_REPOS \/ key = S_ALLOWED_REPOS_FOR_USERS

RECURSIVE verifyFrom(_, _, _, _, _)
verifyFrom(keys, i, header, payload, tried) ==
    IF i > Len(keys)
    THEN [isResponse |-> TRUE, threw |-> FALSE,
          response |-> ErrorResponse("Non-Permissible Key", NoText, NoText),
          used_key |-> NoText, tried |-> tried]
    ELSE LET name == keys[i].name
             key == keys[i].value
         IN  IF skipsEntry(name, key)
             THEN verifyFrom(keys, i + 1, header, payload, tried)
             ELSE LET verified == verifySignature(key, header, payload)
                  IN  IF verified.threw
                      THEN [isResponse |-> FALSE, threw |-> TRUE,
                            response |-> Thrown, used_key |-> NoText,
                            tried |-> Append(tried, name)]
                      ELSE IF verified.verified
                      THEN [isResponse |-> FALSE, threw |-> FALSE,
                            response |-> NoResponse,
                            used_key |-> toLowerCase(name),
                            tried |-> Append(tried, name)]
                      ELSE verifyFrom(keys, i + 1, header, payload,
                                      Append(tried, name))

\* verify_key; tried lists the names of the entries handed to verifySignature
verify_key(keys, header, payload) == verifyFrom(keys, 1, header, payload, <<>>)

(***************************************************************************)
(* Repository restrictions                                                 *)
(***************************************************************************)
\* repos.split(',').map(part => part.replace(/(\r\n|\n|\r)/gm, "").trim())
parseRepoList(repos) ==
    trimEach([i \in 1..Len(split(repos, <<",">>)) |->
                 stripLineBreaks(split(repos, <<",">>)[i])])

RECURSIVE allowedReposFrom(_, _)
allowedReposFrom(keys, allowed_repos) ==
    IF keys = <<>> THEN allowed_repos
    ELSE LET name == toLowerCase(Head(keys).name)
             repos == toLowerCase(Head(keys).value)
         IN  allowedReposFrom(Tail(keys),
                 IF name = S_allowed_repos THEN parseRepoList(repos)
                 ELSE allowed_repos)

get_allowed_repos(keys) == allowedReposFrom(keys, <<>>)

\* for (const part of url_parts) if (!allowed.includes(part)) all = false
allPartsAllowed(url_parts, allowed) ==
    \A i \in 1..Len(url_parts) : includes(allowed, url_parts[i])

\* faulty variant of repo_allowed: one allowed part is enough (the check of
\* worker 0.0.1)
repo_allowed_anyOf(url_parts, keys) ==
    LET allowed_repos == get_allowed_repos(keys)
    IN  IF Len(allowed_repos) = 0
        THEN [isResponse |-> TRUE,
              response |-> ErrorResponse("No Permissible Repositories",
                                         NoText, NoText),
              allowed |-> FALSE]
        ELSE [isResponse |-> FALSE, response |-> NoResponse,
              allowed |-> \E i \in 1..Len(url_parts) :
                              includes(allowed_repos, url_parts[i])]

\* repo_allowed: an error Response or a boolean
repo_allowed(url_parts, keys) ==
    LET allowed_repos == get_allowed_repos(keys)
    IN  IF Len(allowed_repos) = 0
        THEN [isResponse |-> TRUE,
              response |-> ErrorResponse("No Permissible Repositories",
                                         NoText, NoText),
              allowed |-> FALSE]
        ELSE [isResponse |-> FALSE, response |-> NoResponse,
              allowed |-> allPartsAllowed(url_parts, allowed_repos)]

\* faulty variant of keyOwner: the sub-key is not cut off
keyOwner_whole(used_key) == used_key

\* used_key.split('__')[0]
keyOwner(used_key) == split(used_key, <<"_","_">>)[1]

\* faulty variant of userAllowedRepos: "*" is read as a repository name
userAllowedRepos_noWildcard(user_allowances, allowed_repos) ==
    IF user_allowances = <<"-">> THEN <<>>
    ELSE trimEach(split(user_allowances, <<",">>))

\* the repos one matching line grants
userAllowedRepos(user_allowances, allowed_repos) ==
    IF user_allowances = <<"-">> THEN <<>>
    ELSE IF user_allowances = <<"*">> THEN allowed_repos
    ELSE trimEach(split(user_allowances, <<",">>))

\* whether a line of ALLOWED_REPOS_FOR_USERS is skipped ("Skip other keys")
skipsLine(user_name, used_key) == user_name # keyOwner(used_key)

\* faulty variant of scanLines: the scan stops at the first matching line
RECURSIVE scanLines_firstMatch(_, _, _, _)
scanLines_firstMatch(values, used_key, allowed_repos, allowed_repos_for_key) ==
    IF values = <<>>
    THEN [threw |-> FALSE, repos |-> allowed_repos_for_key]
    ELSE LET value == toLowerCase(Head(values))
             user_parts == split(value, <<":">>)
             user_name == trim(stripLineBreaks(user_parts[1]))
         IN  IF skipsLine(user_name, used_key)
             THEN scanLines_firstMatch(Tail(values), used_key, allowed_repos,
                                       allowed_repos_for_key)
             ELSE IF Len(user_parts) < 2
             THEN [threw |-> TRUE, repos |-> allowed_repos_for_key]
             ELSE [threw |-> FALSE,
                   repos |-> userAllowedRepos(trim(user_parts[2]),
                                              allowed_repos)]

\* the loop over the lines of one ALLOWED_REPOS_FOR_USERS value;
\* user_parts[1].trim() throws when the matching line holds no colon
RECURSIVE scanLines(_, _, _, _)
scanLines(values, used_key, allowed_repos, allowed_repos_for_key) ==
    IF values = <<>>
    THEN [threw |-> FALSE, repos |-> allowed_repos_for_key]
    ELSE LET value == toLowerCase(Head(values))
             user_parts == split(value, <<":">>)
             user_name == trim(stripLineBreaks(user_parts[1]))
         IN  IF skipsLine(user_name, used_key)
             THEN scanLines(Tail(values), used_key, allowed_repos,
                            allowed_repos_for_key)
             ELSE IF Len(user_parts) < 2
             THEN [threw |-> TRUE, repos |-> allowed_repos_for_key]
             ELSE scanLines(Tail(values), used_key, allowed_repos,
                            userAllowedRepos(trim(user_parts[2]), allowed_repos))

\* the loop over keys
RECURSIVE scanKeys(_, _, _, _)
scanKeys(keys, used_key, allowed_repos, allowed_repos_for_key) ==
    IF keys = <<>>
    THEN [threw |-> FALSE, repos |-> allowed_repos_for_key]
    ELSE IF toLowerCase(Head(keys).name) = S_allowed_repos_for_users
    THEN LET r == scanLines(split(Head(keys).value, <<"\n">>), used_key,
                            allowed_repos, allowed_repos_for_key)
         IN  IF r.threw THEN r
             ELSE scanKeys(Tail(keys), used_key, allowed_repos, r.repos)
    ELSE scanKeys(Tail(keys), used_key, allowed_repos, allowed_repos_for_key)

\* the repos resolved for the key by the loops of repo_allowed_for_key
allowedReposForKey(used_key, keys) ==
    scanKeys(keys, toLowerCase(used_key), get_allowed_repos(keys), <<>>)

\* repo_allowed_for_key: a boolean, unless the scan throws
repo_allowed_for_key(url_parts, used_key, keys) ==
    LET r == allowedReposForKey(used_key, keys)
    IN  [threw |-> r.threw,
         allowed |-> ~r.threw /\ allPartsAllowed(url_parts, r.repos)]

(***************************************************************************)
(* parse_trigger                                                           *)
(***************************************************************************)
\* faulty variant of hasParam: only the first pair of the query is looked at
hasParam_firstOnly(search, key) == search # <<>> /\ search[1].key = key

\* "key" in getParams, getParams being filled from url.searchParams in order
hasParam(search, key) == \E i \in 1..Len(search) : search[i].key = key

\* getParams[key]: the value of the last pair with that key
getParam(search, key) ==
    LET hits == {i \in 1..Len(search) : search[i].key = key}
    IN  search[CHOOSE i \in hits : \A j \in hits : j <= i].value

\* String.prototype.lastIndexOf for one character, 0-based, -1 when absent
lastIndexOf(s, c) ==
    LET hits == {i \in 1..Len(s) : s[i] = c}
    IN  IF hits = {} THEN -1
        ELSE (CHOOSE i \in hits : \A j \in hits : j <= i) - 1

\* faulty variant of branchOfRef: the ref is cut after its first "/"
branchOfRef_afterFirst(ref) == SubSeq(ref, indexOf(ref, <<"/">>) + 2, Len(ref))

\* ref.substring(ref.lastIndexOf('/') + 1)
branchOfRef(ref) == SubSeq(ref, lastIndexOf(ref, "/") + 2, Len(ref))

\* string concatenation with a value that may be undefined
asText(opt) == IF opt = <<>> THEN S_undefined ELSE opt[1]

\* faulty variant of resolveBranch: test overrides main
resolveBranch_testWins(search, payload) ==
    IF payload.ref = <<>>
    THEN IF hasParam(search, S_test) THEN getParam(search, S_test)
         ELSE IF hasParam(search, S_main) THEN getParam(search, S_main)
         ELSE <<>>
    ELSE branchOfRef(payload.ref[1])

\* the branch taken from the payload or, failing that, from main / test
resolveBranch(search, payload) ==
    IF payload.ref = <<>>
    THEN IF hasParam(search, S_main) THEN getParam(search, S_main)
         ELSE IF hasParam(search, S_test) THEN getParam(search, S_test)
         ELSE <<>>
    ELSE branchOfRef(payload.ref[1])

\* variant of branch_not_main_or_test: the second comparison is with
\* branch_test
branch_not_main_or_test_both(trigger) ==
    /\ trigger.branch_main # <<trigger.code_branch>>
    /\ trigger.branch_test # <<trigger.code_branch>>

\* the test that decides whether the branch is appended to target_name
branch_not_main_or_test(trigger) ==
    /\ trigger.branch_main # <<trigger.code_branch>>
    /\ trigger.branch_main # <<trigger.code_branch>>

\* parse_trigger; payload is the parsed JSON of the re-serialized body
parse_trigger(used_key, url, payload) ==
    LET destination == get_url_parts(url.pathname)
        search == url.search
        main_and_test_not_set ==
            ~hasParam(search, S_test) /\ ~hasParam(search, S_main)
        branch == resolveBranch(search, payload)
        repository == payload.repository[1]
        base ==
            [worker_version |-> version,
             key_owner |-> normalizeName(used_key),
             target_repo |-> join(destination, <<",">>),
             target_name |->
                 IF hasParam(search, S_target_name)
                 THEN <<getParam(search, S_target_name)>>
                 ELSE repository.name,
             branch_main |->
                 IF hasParam(search, S_main) THEN <<getParam(search, S_main)>>
                 ELSE IF main_and_test_not_set THEN <<branch>>
                 ELSE <<>>,
             branch_test |->
                 IF hasParam(search, S_test) THEN <<getParam(search, S_test)>>
                 ELSE <<>>,
             code_repo |-> repository.full_name,
             code_private |-> repository.private,
             code_owner |-> repository.owner[1].login,
             code_url |-> repository.html_url,
             code_branch |-> branch,
             github_comment_made |-> <<>>]
        fail(error) ==
            [isResponse |-> TRUE, threw |-> FALSE,
             response |-> ErrorResponse(error, NoText, NoText),
             trigger |-> <<>>]
        \* a TypeError: "repository" in a value that is no object, a method
        \* of strings called on a ref that is no string, a member of an owner
        \* that is undefined
        throws ==
            [isResponse |-> FALSE, threw |-> TRUE, response |-> Thrown,
             trigger |-> <<>>]
    IN  IF Len(destination) < 1 THEN fail("Non-Permissible Trigger")
        ELSE IF payload.type # "object" THEN throws
        ELSE IF payload.repository = <<>> THEN fail("Unexpected Request Body")
        ELSE IF payload.ref = <<>> /\ main_and_test_not_set
        THEN fail("No Branch Provided")
        ELSE IF payload.ref # <<>> /\ ~payload.refIsString THEN throws
        ELSE IF repository.owner = <<>> THEN throws
        ELSE [isResponse |-> FALSE, threw |-> FALSE, response |-> NoResponse,
              trigger |->
                 <<IF branch_not_main_or_test(base) \/ main_and_test_not_set
                   THEN [base EXCEPT !.target_name =
                            <<asText(base.target_name) \o <<" ", "(">>
                              \o base.code_branch \o <<")">> >>]
                   ELSE base>>]

(***************************************************************************)
(* post_comment_on_repo                                                    *)
(***************************************************************************)
\* faulty variant of post_comment_on_repo: the status of the answer is not
\* looked at
post_comment_on_repo_anyStatus(trigger_data, comment_response) ==
    [isResponse |-> FALSE, response |-> NoResponse,
     html_url |-> comment_response.html_url]

\* post_comment_on_repo, given the comment endpoint's answer to the one POST
post_comment_on_repo(trigger_data, comment_response) ==
    IF comment_response.status # StatusCreated
    THEN [isResponse |-> TRUE,
          response |-> ErrorResponse("Broken GitHub Comment", NoText, NoText),
          html_url |-> <<>>]
    ELSE [isResponse |-> FALSE, response |-> NoResponse,
          html_url |-> comment_response.html_url]

(***************************************************************************)
(* Bounds and input sets                                                   *)
(***************************************************************************)
\* the longest target list after /trigger
MaxTargets == 2

\* the most lines of an ALLOWED_REPOS_FOR_USERS value
MaxLines == 2

L_jsp == <<"j","s","p">>

L_zb == <<"z","b">>

L_x == <<"x">>

Labels == {L_jsp, L_zb, L_x}

TargetLists == UNION {[1..n -> Labels] : n \in 0..MaxTargets}

\* "/trigger" followed by "/<label>" for each label
RECURSIVE labelPath(_)
labelPath(targets) ==
    IF targets = <<>> THEN <<>>
    ELSE <<"/">> \o Head(targets) \o labelPath(Tail(targets))

PathOf(targets) == <<"/">> \o S_trigger \o labelPath(targets)

P_hook == <<"/","h","o","o","k","/","j","s","p">>

P_triggers == <<"/","t","r","i","g","g","e","r","s","/","j","s","p">>

\* upper case, a repeated slash and a trailing slash
P_mixed == <<"/","t","r","i","g","g","e","r","/","/","J","S","P","/">>

\* "Trigger" and "trigger", after another segment
P_twice ==
    <<"/","a","/","T","r","i","g","g","e","r","/","t","r","i","g","g","e","r",
      "/","z","b">>

\* "trigger" as the last segment
P_last == <<"/","j","s","p","/","t","r","i","g","g","e","r","/">>

\* "TRIGGER" in upper case
P_upper == <<"/","T","R","I","G","G","E","R","/","j","s","p">>

Paths ==
    {PathOf(t) : t \in TargetLists}
    \cup {P_hook, P_triggers, P_mixed, P_twice, P_last, P_upper}

S_dev == <<"d","e","v">>

\* the query of the hook's URL: none, or main=dev
Searches == { <<>>, <<[key |-> S_main, value |-> S_dev]>> }

R_owner == [login |-> << <<"o">> >>]

R_repo ==
    [name |-> << <<"r">> >>, full_name |-> << <<"o","/","r">> >>,
     private |-> <<FALSE>>, owner |-> <<R_owner>>,
     html_url |-> << <<"h","t","t","p",":","/","/","x">> >>]

S_ref_dev == <<"r","e","f","s","/","h","e","a","d","s","/","d","e","v">>

\* a JSON object with the members the worker reads: repository and ref,
\* each present or not; refIsString tells a ref that is no string
Payload(repository, ref) ==
    [type |-> "object", repository |-> repository, ref |-> ref,
     refIsString |-> TRUE]

\* a push payload, and a payload without repository
Payloads == { Payload(<<R_repo>>, <<S_ref_dev>>), Payload(<<>>, <<>>) }

\* the secrets of the two keys of owner al
K_al == <<"k","1">>

K_fork == <<"k","2">>

\* a secret no variable of the store holds
K_none == <<"k","0">>

N_AL == <<"A","L">>

N_fork == <<"a","l","_","_","f">>

Credentials ==
    << [name |-> N_AL, value |-> K_al], [name |-> N_fork, value |-> K_fork] >>

\* values of ALLOWED_REPOS: blank, and "jsp,\nZb"
T_blank == <<>>

T_repos == <<"j","s","p",",","\n","Z","b">>

AllowedReposTexts == {T_blank, T_repos}

\* lines of ALLOWED_REPOS_FOR_USERS
A_all == <<"a","l",":"," ","*">>

A_none == <<"a","l",":"," ","-">>

A_list == <<"A","L"," ",":"," ","j","s","p"," ",","," ","x">>

A_other == <<"b","o",":"," ","*">>

A_nocolon == <<"a","l">>

AclLines == {A_all, A_none, A_list, A_other, A_nocolon}

RECURSIVE joinLines(_)
joinLines(lines) ==
    IF lines = <<>> THEN <<>>
    ELSE IF Len(lines) = 1 THEN lines[1]
    ELSE lines[1] \o <<"\n">> \o joinLines(Tail(lines))

\* values of ALLOWED_REPOS_FOR_USERS: up to MaxLines different lines, in any
\* order
AclTexts ==
    {joinLines(l) :
        l \in {m \in UNION {[1..n -> AclLines] : n \in 1..MaxLines} :
                  \A i, j \in 1..Len(m) : i # j => m[i] # m[j]}}

\* the variables array of a key-store answer: the credentials, then the
\* meta-entries that are set
MetaVariables(name, texts) ==
    {<<>>} \cup {<<[name |-> name, value |-> t]>> : t \in texts}

\* a third variable whose name is stored under the name of the first
N_Al == <<"A","l">>

K_later == <<"k","3">>

DuplicateVariables == Credentials \o <<[name |-> N_Al, value |-> K_later]>>

StoreResponses ==
    {[status |-> 500, variables |-> <<>>], [status |-> StatusOk, variables |-> <<>>],
     [status |-> StatusOk, variables |-> DuplicateVariables]}
    \cup
    {[status |-> StatusOk, variables |-> Credentials \o ar \o aru] :
        ar \in MetaVariables(S_ALLOWED_REPOS, AllowedReposTexts),
        aru \in MetaVariables(S_ALLOWED_REPOS_FOR_USERS, AclTexts)}

CommentResponses ==
    {[status |-> StatusCreated, html_url |-> << <<"c">> >>],
     [status |-> 403, html_url |-> <<>>]}

\* JSON.stringify(await request.json()): the compact text of the body's value
stringify(body) == [json |-> body.json, spaced |-> FALSE, wellFormed |-> TRUE]

\* JSON.parse of a text
parse(text) == text.json

\* the text of a request body: the JSON text of a value, compact or not
Body(json) == [json |-> json, spaced |-> FALSE, wellFormed |-> TRUE]

Bodies == {Body(p) : p \in Payloads}

UA_hookshot ==
    <<"G","i","t","H","u","b","-","H","o","o","k","s","h","o","t","/","a","1">>

UA_curl == <<"c","u","r","l","/","8">>

S_sha1 == <<"s","h","a","1","=">>

\* the header text "sha256": no "=" and nothing after it
S_sha256_bare == <<"s","h","a","2","5","6">>

\* the secrets a sender may sign with: a key of the store, no key of the
\* store, the text of ALLOWED_REPOS
Signers == {K_al, K_fork, K_none, T_repos}

\* values of x-hub-signature-256 sent with a body: absent, or
\* "<scheme><hex of the tag of the body under some secret>"
SignatureHeaders(body) ==
    {<<>>, <<[scheme |-> S_sha1, tag |-> <<Hmac(K_al, body)>>]>>,
     <<[scheme |-> S_sha256_bare, tag |-> <<>>]>>}
    \cup {<<[scheme |-> S_sha256, tag |-> <<Hmac(k, body)>>]>> : k \in Signers}

RequestsWith(body) ==
    {[method |-> "POST",
      headers |-> [ua |-> ua, delivery |-> d, event |-> e, sig |-> sig],
      url |-> [pathname |-> path, search |-> search],
      body |-> body] :
        ua \in {<<>>, <<UA_curl>>, <<UA_hookshot>>},
        d \in {<<>>, << <<"d","1">> >>},
        e \in {<<>>, << <<"p","u","s","h">> >>},
        sig \in SignatureHeaders(body),
        path \in Paths, search \in Searches}

\* the path /x/jsp with the query y=trigger
P_x == <<"/","x","/","j","s","p">>

QueryTrigger == <<[key |-> <<"y">>, value |-> S_trigger]>>

\* hooks with the headers GitHub sends whose URL holds "trigger" in the
\* query alone
QueryTriggerRequestsWith(body) ==
    {[method |-> "POST",
      headers |->
          [ua |-> <<UA_hookshot>>, delivery |-> << <<"d","1">> >>,
           event |-> << <<"p","u","s","h">> >>, sig |-> sig],
      url |-> [pathname |-> P_x, search |-> QueryTrigger],
      body |-> body] :
        sig \in SignatureHeaders(body) \ {<<>>}}

QueryTriggerRequests == UNION {QueryTriggerRequestsWith(body) : body \in Bodies}

Requests ==
    UNION {RequestsWith(body) : body \in Bodies} \cup QueryTriggerRequests

\* the hook's query: target_name, main and test, each given or not
S_M_P == <<"M","_","P">>

OptionalParam(key, values) ==
    {<<>>} \cup {<<[key |-> key, value |-> v]>> : v \in values}

TriggerSearches ==
    {tn \o m \o t :
        tn \in OptionalParam(S_target_name, {S_M_P}),
        m \in OptionalParam(S_main, {S_main, S_dev}),
        t \in OptionalParam(S_test, {S_main, S_dev})}

S_ref_main == <<"r","e","f","s","/","h","e","a","d","s","/","m","a","i","n">>

\* a repository object without owner
R_noOwner == [R_repo EXCEPT !.owner = <<>>]

\* bodies GitHub or anyone holding a key may send: pushes to dev and to main,
\* a ref without "/", no ref, no repository, a repository without owner, a
\* ref that is a number, a JSON number, and a text that is no JSON
TriggerBodies ==
    {Body(Payload(<<R_repo>>, ref)) :
        ref \in {<<>>, <<S_ref_dev>>, <<S_ref_main>>, <<S_dev>>}}
    \cup {Body(Payload(<<>>, <<>>)),
          Body(Payload(<<R_noOwner>>, <<S_ref_dev>>)),
          Body([Payload(<<R_repo>>, <<S_dev>>) EXCEPT !.refIsString = FALSE]),
          Body([Payload(<<>>, <<>>) EXCEPT !.type = "number"]),
          [Body(Payload(<<>>, <<>>)) EXCEPT !.wellFormed = FALSE]}

\* a hook for /trigger/jsp with the headers GitHub sends
Hook(search, body, tag) ==
    [method |-> "POST",
     headers |->
         [ua |-> <<UA_hookshot>>, delivery |-> << <<"d","1">> >>,
          event |-> << <<"p","u","s","h">> >>,
          sig |-> <<[scheme |-> S_sha256, tag |-> <<tag>>]>>],
     url |-> [pathname |-> PathOf(<<L_jsp>>), search |-> search],
     body |-> body]

\* a push whose JSON text holds white space between its tokens
B_spaced == [Body(Payload(<<R_repo>>, <<S_ref_dev>>)) EXCEPT !.spaced = TRUE]

\* hooks for /trigger/jsp signed with the key of owner al: over the bytes of
\* the body and, for the body with white space, also over its compact form
TriggerRequests ==
    {Hook(search, body, Hmac(K_al, body)) :
        search \in TriggerSearches, body \in TriggerBodies}
    \cup {Hook(<<>>, B_spaced, Hmac(K_al, B_spaced)),
          Hook(<<>>, B_spaced, Hmac(K_al, stringify(B_spaced)))}

\* the body of a request that carries none: request.json() rejects
B_none == [Body(Payload(<<>>, <<>>)) EXCEPT !.wellFormed = FALSE]

\* the methods the export's fetch hands to handleRequest
HandledMethods == {"GET", "POST"}

\* the hook for /trigger/jsp sent with another method: PUT and DELETE with
\* the body of a push, GET without a body
OtherMethodRequests ==
    {[Hook(<<>>, body, Hmac(K_al, body)) EXCEPT !.method = method] :
        body \in {Body(Payload(<<R_repo>>, <<S_ref_dev>>))},
        method \in {"PUT", "DELETE"}}
    \cup {[Hook(<<>>, B_none, Hmac(K_al, B_none)) EXCEPT !.method = "GET"]}

(***************************************************************************)
(* handleRequest as a state machine: one action per stage, the stages      *)
(* being separated by the awaits and the early returns of the handler      *)
(***************************************************************************)
VARIABLES
    request,        \* the request being handled
    pc,             \* the stage handleRequest is about to run
    keys_response,  \* let keys_response, once the key store answered
    keys,           \* let keys
    used_key,       \* let used_key
    tried,          \* the names of the entries handed to verifySignature
    url_parts,      \* const url_parts
    trigger_data,   \* let trigger_data, once parse_trigger returned it
    comment_response, \* the comment endpoint's answer, once it answered
    response,       \* what handleRequest returned
    storeCalls,     \* the GETs made to the key store
    commentCalls,   \* the trigger records POSTed to the comment endpoint
    calls,          \* the functions handleRequest has called, in order
    isolate         \* the module-level bindings and the requests in flight

vars == <<request, pc, keys_response, keys, used_key, tried, url_parts, trigger_data,
          comment_response, response, storeCalls, commentCalls, calls,
          isolate>>

\* the origin the worker is served from
S_origin ==
    <<"h","t","t","p","s",":","/","/","a","u","t","o","r","e","p","o",".",
      "j","s","p",".","z","b","e","e",".","c","o","d","e","s">>

RECURSIVE searchText(_)
searchText(search) ==
    IF search = <<>> THEN <<>>
    ELSE Head(search).key \o <<"=">> \o Head(search).value
         \o (IF Len(search) > 1 THEN <<"&">> ELSE <<>>)
         \o searchText(Tail(search))

\* request.url
urlText(url) ==
    S_origin \o url.pathname
    \o (IF url.search = <<>> THEN <<>> ELSE <<"?">> \o searchText(url.search))

\* the text of a header value that is present
headerText(h) == h.scheme

\* faulty variant of rejectsOrigin: the scheme of the signature header is
\* not looked at
rejectsOrigin_anyScheme(req) ==
    \/ req.headers.ua = <<>> \/ req.headers.ua = << <<>> >>
    \/ req.headers.delivery = <<>> \/ req.headers.delivery = << <<>> >>
    \/ req.headers.event = <<>> \/ req.headers.event = << <<>> >>
    \/ req.headers.sig = <<>> \/ headerText(req.headers.sig[1]) = <<>>
    \/ ~startsWith(req.headers.ua[1], S_Hookshot)
    \/ indexOf(urlText(req.url), S_trigger) = -1

\* the condition of "Reject anything other than hookshot going to /trigger/"
rejectsOrigin(req) ==
    \/ req.headers.ua = <<>> \/ req.headers.ua = << <<>> >>
    \/ req.headers.delivery = <<>> \/ req.headers.delivery = << <<>> >>
    \/ req.headers.event = <<>> \/ req.headers.event = << <<>> >>
    \/ req.headers.sig = <<>> \/ headerText(req.headers.sig[1]) = <<>>
    \/ ~startsWith(req.headers.ua[1], S_Hookshot)
    \/ ~startsWith(headerText(req.headers.sig[1]), S_sha256)
    \/ indexOf(urlText(req.url), S_trigger) = -1

\* the bindings of the module: const version, const keys_url, let
\* comment_url
ModuleBindings ==
    [version |-> version, keys_url |-> keys_url, comment_url |-> comment_url]

Init ==
    /\ request \in Requests \cup OtherMethodRequests
    /\ pc = "gate"
    /\ keys_response = <<>>
    /\ keys = <<>>
    /\ used_key = NoText
    /\ tried = <<>>
    /\ url_parts = <<>>
    /\ trigger_data = <<>>
    /\ comment_response = <<>>
    /\ response = NoResponse
    /\ storeCalls = 0
    /\ commentCalls = <<>>
    /\ calls = <<>>
    /\ isolate = [module |-> ModuleBindings, requests |-> <<>>]

\* the hooks of TriggerRequests, at the start of handleRequest
InitTrigger ==
    /\ request \in TriggerRequests \cup OtherMethodRequests
    /\ pc = "gate"
    /\ keys_response = <<>>
    /\ keys = <<>>
    /\ used_key = NoText
    /\ tried = <<>>
    /\ url_parts = <<>>
    /\ trigger_data = <<>>
    /\ comment_response = <<>>
    /\ response = NoResponse
    /\ storeCalls = 0
    /\ commentCalls = <<>>
    /\ calls = <<>>
    /\ isolate = [module |-> ModuleBindings, requests |-> <<>>]

\* faulty variant of Return: the failed request is started again at the key
\* store
Return_retry(r) == pc' = "get_allowed_keys" /\ response' = r

\* return r from handleRequest
Return(r) == pc' = "done" /\ response' = r

\* the export's fetch, lines 537-545: a request with another method than
\* GET and POST is answered 405 and handleRequest is not called
Fetch ==
    /\ pc = "gate"
    /\ request.method \notin HandledMethods
    /\ Return(MethodNotAllowed)
    /\ UNCHANGED <<isolate, request, keys_response, keys, used_key, tried, url_parts,
                   trigger_data, comment_response, storeCalls, commentCalls,
                   calls>>

\* fetch calls handleRequest, lines 456-464: the origin gate
Gate ==
    /\ pc = "gate"
    /\ request.method \in HandledMethods
    /\ IF rejectsOrigin(request)
       THEN Return(ErrorResponse("Non-Permissible Origin", NoText, NoText))
       ELSE pc' = "get_allowed_keys" /\ UNCHANGED response
    /\ UNCHANGED <<isolate, request, keys_response, keys, used_key, tried, url_parts,
                   trigger_data, comment_response, storeCalls, commentCalls,
                   calls>>

\* lines 469-472: await get_allowed_keys(env); the store answers
GetAllowedKeys ==
    /\ pc = "get_allowed_keys"
    /\ \E answer \in StoreResponses :
          LET r == get_allowed_keys(answer)
          IN  /\ keys_response' = <<answer>>
              /\ IF r.isResponse
                 THEN Return(r.response) /\ UNCHANGED keys
                 ELSE pc' = "verify_key" /\ keys' = r.keys
                      /\ UNCHANGED response
    /\ storeCalls' = storeCalls + 1
    /\ calls' = Append(calls, "get_allowed_keys")
    /\ UNCHANGED <<isolate, request, used_key, tried, url_parts, trigger_data,
                   comment_response, commentCalls>>

\* lines 475-479: the body is read and re-serialized, verify_key runs
VerifyKey ==
    /\ pc = "verify_key"
    /\ LET payload == stringify(request.body)
           r == verify_key(keys, request.headers.sig[1], payload)
       IN  IF ~request.body.wellFormed
           THEN \* await request.json() throws a SyntaxError
                Return(Thrown) /\ UNCHANGED <<used_key, tried, calls>>
           ELSE /\ tried' = r.tried
                /\ calls' = Append(calls, "verify_key")
                /\ IF r.threw THEN Return(Thrown) /\ UNCHANGED used_key
                   ELSE IF r.isResponse
                   THEN Return(r.response) /\ UNCHANGED used_key
                   ELSE pc' = "repo_allowed" /\ used_key' = r.used_key
                        /\ UNCHANGED response
    /\ UNCHANGED <<isolate, request, keys_response, keys, url_parts, trigger_data,
                   comment_response, storeCalls, commentCalls>>

\* faulty variant of RepoAllowed: the result of repo_allowed is not looked at
RepoAllowed_ignored ==
    /\ pc = "repo_allowed"
    /\ url_parts' = get_url_parts(request.url.pathname)
    /\ pc' = "repo_allowed_for_key"
    /\ calls' = Append(calls, "repo_allowed")
    /\ UNCHANGED <<isolate, request, keys_response, keys, used_key, tried,
                   trigger_data, comment_response, response, storeCalls,
                   commentCalls>>

\* lines 484-488: !repo_allowed(url_parts, keys); a Response is truthy
RepoAllowed ==
    /\ pc = "repo_allowed"
    /\ url_parts' = get_url_parts(request.url.pathname)
    /\ LET r == repo_allowed(url_parts', keys)
       IN  IF ~(r.isResponse \/ r.allowed)
           THEN Return(ErrorResponse("Non-Permissible Repository",
                                     NoText, NoText))
           ELSE pc' = "repo_allowed_for_key" /\ UNCHANGED response
    /\ calls' = Append(calls, "repo_allowed")
    /\ UNCHANGED <<isolate, request, keys_response, keys, used_key, tried,
                   trigger_data, comment_response, storeCalls, commentCalls>>

\* lines 491-497
RepoAllowedForKey ==
    /\ pc = "repo_allowed_for_key"
    /\ LET r == repo_allowed_for_key(url_parts, used_key, keys)
       IN  IF r.threw THEN Return(Thrown)
           ELSE IF ~r.allowed
           THEN Return(ErrorResponse("Non-Permissible Repository for Key",
                                     used_key, join(url_parts, <<",", " ">>)))
           ELSE pc' = "parse_trigger" /\ UNCHANGED response
    /\ calls' = Append(calls, "repo_allowed_for_key")
    /\ UNCHANGED <<isolate, request, keys_response, keys, used_key, tried, url_parts,
                   trigger_data, comment_response, storeCalls, commentCalls>>

\* lines 501-504
ParseTrigger ==
    /\ pc = "parse_trigger"
    /\ LET r == parse_trigger(used_key, request.url,
                              parse(stringify(request.body)))
       IN  IF r.threw THEN Return(Thrown) /\ UNCHANGED trigger_data
           ELSE IF r.isResponse
           THEN Return(r.response) /\ UNCHANGED trigger_data
           ELSE pc' = "post_comment_on_repo" /\ trigger_data' = r.trigger
                /\ UNCHANGED response
    /\ calls' = Append(calls, "parse_trigger")
    /\ UNCHANGED <<isolate, request, keys_response, keys, used_key, tried, url_parts,
                   comment_response, storeCalls, commentCalls>>

\* lines 509-531: await post_comment_on_repo; the comment endpoint answers
PostCommentOnRepo ==
    /\ pc = "post_comment_on_repo"
    /\ \E answer \in CommentResponses :
          LET r == post_comment_on_repo(trigger_data[1], answer)
              made == [trigger_data[1] EXCEPT
                          !.github_comment_made = r.html_url]
          IN  /\ comment_response' = <<answer>>
              /\ IF r.isResponse
                 THEN Return(r.response) /\ UNCHANGED trigger_data
                 ELSE trigger_data' = <<made>>
                      /\ Return(TriggerResponse(made))
    /\ commentCalls' = Append(commentCalls, trigger_data[1])
    /\ calls' = Append(calls, "post_comment_on_repo")
    /\ UNCHANGED <<isolate, request, keys_response, keys, used_key, tried, url_parts,
                   storeCalls>>

Next ==
    \/ Fetch
    \/ Gate
    \/ GetAllowedKeys
    \/ VerifyKey
    \/ RepoAllowed
    \/ RepoAllowedForKey
    \/ ParseTrigger
    \/ PostCommentOnRepo

Spec == Init /\ [][Next]_vars

\* the same handler on the hooks of TriggerRequests
SpecTrigger == InitTrigger /\ [][Next]_vars

\* the runtime resumes the handler whenever the operation it awaits has
\* returned: a stage that can run does run
SpecLive == Init /\ [][Next]_vars /\ WF_vars(Next)

(***************************************************************************)
(* Two requests in one isolate: each call of fetch has its own variables;  *)
(* the calls share the bindings of the module and are interleaved at the   *)
(* stages of handleRequest                                                 *)
(***************************************************************************)
\* the variables of one call of fetch before its first stage; store and
\* comment hold the answers the call was given, fetched and posted the
\* calls it made to the key store and to the comment endpoint
Started(req) ==
    [request |-> req, pc |-> "gate", keys |-> <<>>, used_key |-> NoText,
     url_parts |-> <<>>, trigger_data |-> <<>>, response |-> NoResponse,
     store |-> <<>>, comment |-> <<>>, fetched |-> <<>>, posted |-> <<>>]

\* the next stage of the call with the variables st: fetch and the gate,
\* then the stages of handleRequest; module holds the bindings the stage
\* reads (keys_url at line 131, comment_url at line 409), store_answer and
\* comment_answer what the key store and the comment endpoint answer when
\* the stage awaits them
handleRequest(st, module, store_answer, comment_answer) ==
    LET return(r) == [st EXCEPT !.pc = "done", !.response = r]
    IN  CASE st.pc = "gate" ->
                IF st.request.method \notin HandledMethods
                THEN return(MethodNotAllowed)
                ELSE IF rejectsOrigin(st.request)
                THEN return(ErrorResponse("Non-Permissible Origin",
                                          NoText, NoText))
                ELSE [st EXCEPT !.pc = "get_allowed_keys"]
          [] st.pc = "get_allowed_keys" ->
                LET r == get_allowed_keys(store_answer)
                    s == [st EXCEPT !.store = <<store_answer>>,
                                    !.fetched = Append(@, module.keys_url)]
                IN  IF r.isResponse
                    THEN [s EXCEPT !.pc = "done", !.response = r.response]
                    ELSE [s EXCEPT !.pc = "verify_key", !.keys = r.keys]
          [] st.pc = "verify_key" ->
                LET r == verify_key(st.keys, st.request.headers.sig[1],
                                    stringify(st.request.body))
                IN  IF ~st.request.body.wellFormed THEN return(Thrown)
                    ELSE IF r.threw THEN return(Thrown)
                    ELSE IF r.isResponse THEN return(r.response)
                    ELSE [st EXCEPT !.pc = "repo_allowed",
                                    !.used_key = r.used_key]
          [] st.pc = "repo_allowed" ->
                LET parts == get_url_parts(st.request.url.pathname)
                    r == repo_allowed(parts, st.keys)
                    s == [st EXCEPT !.url_parts = parts]
                IN  IF ~(r.isResponse \/ r.allowed)
                    THEN [s EXCEPT !.pc = "done",
                                   !.response =
                                       ErrorResponse(
                                           "Non-Permissible Repository",
                                           NoText, NoText)]
                    ELSE [s EXCEPT !.pc = "repo_allowed_for_key"]
          [] st.pc = "repo_allowed_for_key" ->
                LET r == repo_allowed_for_key(st.url_parts, st.used_key,
                                              st.keys)
                IN  IF r.threw THEN return(Thrown)
                    ELSE IF ~r.allowed
                    THEN return(ErrorResponse(
                                    "Non-Permissible Repository for Key",
                                    st.used_key,
                                    join(st.url_parts, <<",", " ">>)))
                    ELSE [st EXCEPT !.pc = "parse_trigger"]
          [] st.pc = "parse_trigger" ->
                LET r == parse_trigger(st.used_key, st.request.url,
                                       parse(stringify(st.request.body)))
                IN  IF r.threw THEN return(Thrown)
                    ELSE IF r.isResponse THEN return(r.response)
                    ELSE [st EXCEPT !.pc = "post_comment_on_repo",
                                    !.trigger_data = r.trigger]
          [] st.pc = "post_comment_on_repo" ->
                LET r == post_comment_on_repo(st.trigger_data[1],
                                              comment_answer)
                    made == [st.trigger_data[1] EXCEPT
                                !.github_comment_made = r.html_url]
                    s == [st EXCEPT
                             !.comment = <<comment_answer>>,
                             !.posted =
                                 Append(@, [url |-> module.comment_url,
                                            trigger_data |->
                                                st.trigger_data[1]])]
                IN  IF r.isResponse
                    THEN [s EXCEPT !.pc = "done", !.response = r.response]
                    ELSE [s EXCEPT !.pc = "done",
                                   !.trigger_data = <<made>>,
                                   !.response = TriggerResponse(made)]
          [] OTHER -> st

\* the hooks two senders may send at the same time: pushes for jsp signed
\* by al and by al__f, a push for zb and jsp, a push with a query, a hook
\* nobody signed properly, and a PUT
ConcurrentRequests ==
    {Hook(<<>>, body, Hmac(k, body)) :
        body \in {Body(Payload(<<R_repo>>, <<S_ref_dev>>))},
        k \in {K_al, K_fork, K_none}}
    \cup {[Hook(<<>>, body, Hmac(K_al, body)) EXCEPT
              !.url.pathname = PathOf(<<L_zb, L_jsp>>)] :
             body \in {Body(Payload(<<R_repo>>, <<S_ref_main>>))}}
    \cup {Hook(<<[key |-> S_main, value |-> S_dev]>>, body,
                Hmac(K_al, body)) :
             body \in {Body(Payload(<<R_repo>>, <<>>))}}
    \cup {r \in OtherMethodRequests : r.method = "PUT"}

\* answers of the key store to them: an error, the two credentials alone,
\* and the credentials with ALLOWED_REPOS and a one-line ACL
ConcurrentStoreResponses ==
    {a \in StoreResponses :
        \/ a.status # StatusOk
        \/ a.variables = Credentials
        \/ \E line \in {A_all, A_list, A_nocolon} :
              a.variables =
                  Credentials
                  \o <<[name |-> S_ALLOWED_REPOS, value |-> T_repos],
                       [name |-> S_ALLOWED_REPOS_FOR_USERS, value |-> line]>>}

\* two calls of fetch have started, none has run a stage
InitConcurrent ==
    /\ \E r1, r2 \in ConcurrentRequests :
          isolate = [module |-> ModuleBindings,
                     requests |-> <<Started(r1), Started(r2)>>]
    /\ request \in {r \in OtherMethodRequests : r.method = "PUT"}
    /\ pc = "done"
    /\ keys_response = <<>>
    /\ keys = <<>>
    /\ used_key = NoText
    /\ tried = <<>>
    /\ url_parts = <<>>
    /\ trigger_data = <<>>
    /\ comment_response = <<>>
    /\ response = MethodNotAllowed
    /\ storeCalls = 0
    /\ commentCalls = <<>>
    /\ calls = <<>>

\* faulty variant of Handle: the stage that builds the trigger keeps the
\* URL to post to, with the targets of its request, in comment_url
Handle_sharedUrl(i) ==
    /\ isolate.requests[i].pc # "done"
    /\ \E store_answer \in ConcurrentStoreResponses,
          comment_answer \in CommentResponses :
          LET st == isolate.requests[i]
              module ==
                  IF st.pc = "parse_trigger"
                  THEN [isolate.module EXCEPT
                           !.comment_url =
                               comment_url \o <<"?">>
                               \o join(st.url_parts, <<",">>)]
                  ELSE isolate.module
          IN  isolate' =
                  [module |-> module,
                   requests |->
                       [isolate.requests EXCEPT
                           ![i] = handleRequest(st, module, store_answer,
                                                comment_answer)]]
    /\ UNCHANGED <<request, pc, keys_response, keys, used_key, tried,
                   url_parts, trigger_data, comment_response, response,
                   storeCalls, commentCalls, calls>>

\* call i runs its next stage; no stage assigns to a binding of the module
Handle(i) ==
    /\ isolate.requests[i].pc # "done"
    /\ \E store_answer \in ConcurrentStoreResponses,
          comment_answer \in CommentResponses :
          isolate' =
              [isolate EXCEPT
                  !.requests[i] =
                      handleRequest(@, isolate.module, store_answer,
                                    comment_answer)]
    /\ UNCHANGED <<request, pc, keys_response, keys, used_key, tried,
                   url_parts, trigger_data, comment_response, response,
                   storeCalls, commentCalls, calls>>

NextConcurrent == \E i \in 1..2 : Handle(i)

SpecConcurrent == InitConcurrent /\ [][NextConcurrent]_vars

(***************************************************************************)
(* Vocabulary of the properties                                            *)
(***************************************************************************)
Called(f) == \E i \in 1..Len(calls) : calls[i] = f

Done == pc = "done"

\* verify_key returned an identity
Authenticated == used_key # NoText

\* the target labels of the request
Targets == get_url_parts(request.url.pathname)

\* the global check let the request through
PassedGlobal == pc = "repo_allowed_for_key" \/ Called("repo_allowed_for_key")

\* the per-identity check let the request through
PassedForKey == pc = "parse_trigger" \/ Called("parse_trigger")

IsMetaName(name) ==
    toLowerCase(name) \in {S_allowed_repos, S_allowed_repos_for_users}

\* the value stored under a name that lower-cases to lowered, if any
ValuesOf(lowered) ==
    {keys[i].value : i \in {j \in 1..Len(keys) : toLowerCase(keys[j].name) = lowered}}

\* the Global Allow-List as a set of labels
GlobalAllowList ==
    LET list == get_allowed_repos(keys)
    IN  {list[i] : i \in 1..Len(list)}

\* ALLOWED_REPOS is absent, or its text is blank
GlobalAllowListEmpty ==
    \A v \in ValuesOf(S_allowed_repos) : trim(stripLineBreaks(v)) = <<>>

\* the lines of ALLOWED_REPOS_FOR_USERS
AclLinesOf ==
    IF ValuesOf(S_allowed_repos_for_users) = {} THEN <<>>
    ELSE split(CHOOSE v \in ValuesOf(S_allowed_repos_for_users) : TRUE, <<"\n">>)

\* "owner: spec": the owner is what stands before the first colon, the spec
\* what stands after it
LineOwner(line) ==
    LET k == indexOf(line, <<":">>)
    IN  trim(toLowerCase(IF k = -1 THEN line ELSE SubSeq(line, 1, k)))

LineSpec(line) ==
    LET k == indexOf(line, <<":">>)
    IN  trim(toLowerCase(SubSeq(line, k + 2, Len(line))))

\* the part of the lower-cased identity before the first double underscore
BaseOwner(identity) ==
    LET id == toLowerCase(identity)
        k == indexOf(id, <<"_","_">>)
    IN  IF k = -1 THEN id ELSE SubSeq(id, 1, k)

\* the lines whose owner is the base owner of the identity
MatchingLines(identity) ==
    LET lines == AclLinesOf
        owner == BaseOwner(identity)
    IN  {i \in 1..Len(lines) : LineOwner(lines[i]) = owner}

\* every matching line has the form "owner: spec"
MatchingLinesWellFormed(identity) ==
    LET lines == AclLinesOf
    IN  \A i \in MatchingLines(identity) : indexOf(lines[i], <<":">>) # -1

\* the set a spec stands for
SpecSet(spec) ==
    IF spec = <<"-">> THEN {}
    ELSE IF spec = <<"*">> THEN GlobalAllowList
    ELSE LET entries == split(spec, <<",">>)
         IN  {trim(entries[i]) : i \in 1..Len(entries)}

LastMatchingLine(identity) ==
    LET matching == MatchingLines(identity)
    IN  AclLinesOf[CHOOSE i \in matching : \A j \in matching : j <= i]

\* the per-identity allowed set
ResolvedSet(identity) ==
    IF MatchingLines(identity) = {} THEN {}
    ELSE SpecSet(LineSpec(LastMatchingLine(identity)))

AllIn(labels, set) ==
    LET members == set
    IN  \A i \in 1..Len(labels) : labels[i] \in members

(***************************************************************************)
(* C1.  The meta-entries ALLOWED_REPOS and ALLOWED_REPOS_FOR_USERS are     *)
(* never used as signing secrets: verify_key hands no meta-entry to the    *)
(* signature verifier, and no request is given the name of a meta-entry as *)
(* its identity.                                                           *)
(***************************************************************************)
C1_MetaEntriesNeverSign ==
    /\ \A i \in 1..Len(tried) : ~IsMetaName(tried[i])
    /\ ~IsMetaName(used_key)

(***************************************************************************)
(* C2.  If the Global Allow-List is empty (ALLOWED_REPOS absent or blank), *)
(* no request with a non-empty target list reaches parse_trigger or        *)
(* post_comment_on_repo, whatever ALLOWED_REPOS_FOR_USERS holds.           *)
(***************************************************************************)
C2_EmptyGlobalListAuthorizesNothing ==
    (keys # <<>> /\ GlobalAllowListEmpty /\ Targets # <<>>)
        => ~Called("parse_trigger") /\ ~Called("post_comment_on_repo")

(***************************************************************************)
(* C3.  A request whose required headers are missing or malformed is       *)
(* answered Non-Permissible Origin, and at no point of the request has the *)
(* key store or the comment endpoint been called.                          *)
(***************************************************************************)
MalformedHeaders(req) ==
    \/ req.headers.ua = <<>>
    \/ req.headers.delivery = <<>>
    \/ req.headers.event = <<>>
    \/ req.headers.sig = <<>>
    \/ ~startsWith(req.headers.ua[1], S_Hookshot)
    \/ ~startsWith(req.headers.sig[1].scheme, S_sha256)

C3_MalformedHeadersRejectedBeforeFetch ==
    MalformedHeaders(request) =>
        /\ storeCalls = 0
        /\ commentCalls = <<>>
        /\ calls = <<>>
        /\ Done => response = ErrorResponse("Non-Permissible Origin",
                                            NoText, NoText)

\* a request with a sha1 signature and otherwise good headers was answered
C3_Witness ==
    /\ Done
    /\ request.headers.ua = <<UA_hookshot>>
    /\ request.headers.delivery # <<>>
    /\ request.headers.event # <<>>
    /\ request.headers.sig # <<>>
    /\ request.headers.sig[1].scheme = S_sha1
    /\ response.error = "Non-Permissible Origin"

(***************************************************************************)
(* C4.  The global check is all-of: with a non-empty Global Allow-List the *)
(* request passes repo_allowed exactly when every target label is in the   *)
(* list, and otherwise ends with Non-Permissible Repository.               *)
(***************************************************************************)
C4_GlobalCheckIsAllOf ==
    (Called("repo_allowed") /\ get_allowed_repos(keys) # <<>>) =>
        IF AllIn(url_parts, GlobalAllowList)
        THEN PassedGlobal
        ELSE /\ Done
             /\ response = ErrorResponse("Non-Permissible Repository",
                                         NoText, NoText)
             /\ ~PassedGlobal

\* an allowed label followed by one outside the list was rejected
C4_Witness ==
    /\ Done
    /\ url_parts = <<L_jsp, L_x>>
    /\ GlobalAllowList = {L_jsp, L_zb}
    /\ response.error = "Non-Permissible Repository"

(***************************************************************************)
(* C5.  With at most one line for the identity's base owner, the           *)
(* per-identity set is: nothing for "-" and for no line, the Global        *)
(* Allow-List for "*", the trimmed comma-separated entries otherwise; the  *)
(* request passes repo_allowed_for_key exactly when every target label is  *)
(* in that set, and otherwise ends with Non-Permissible Repository for Key.*)
(***************************************************************************)
C5_PerIdentitySetDecides ==
    (/\ Called("repo_allowed_for_key")
     /\ Cardinality(MatchingLines(used_key)) <= 1
     /\ MatchingLinesWellFormed(used_key)) =>
        IF AllIn(url_parts, ResolvedSet(used_key))
        THEN PassedForKey
        ELSE /\ Done
             /\ response.error = "Non-Permissible Repository for Key"
             /\ ~PassedForKey

\* a wildcard line let two labels of the Global Allow-List through
C5_Witness ==
    /\ PassedForKey
    /\ AclLinesOf = <<A_all>>
    /\ url_parts = <<L_zb, L_jsp>>
    /\ GlobalAllowList = {L_jsp, L_zb}

(***************************************************************************)
(* C6.  With several lines for the identity's base owner, the last of them *)
(* alone decides: the request passes repo_allowed_for_key exactly when     *)
(* every target label is in the set that line stands for.                  *)
(***************************************************************************)
C6_LastMatchingLineWins ==
    (/\ Called("repo_allowed_for_key")
     /\ Cardinality(MatchingLines(used_key)) >= 2
     /\ MatchingLinesWellFormed(used_key)) =>
        (PassedForKey <=>
            AllIn(url_parts, SpecSet(LineSpec(LastMatchingLine(used_key)))))

\* "al: -" followed by "al: *": the wildcard decided
C6_Witness ==
    /\ PassedForKey
    /\ AclLinesOf = <<A_none, A_all>>
    /\ url_parts # <<>>

(***************************************************************************)
(* C7.  A key named owner__subkey is authorized exactly as the key named   *)
(* owner: what repo_allowed_for_key did for the identity of the request is *)
(* what it does for the identity's base owner.                             *)
(***************************************************************************)
ForKeyOutcome ==
    IF PassedForKey THEN "allowed"
    ELSE IF response.kind = "exception" THEN "threw"
    ELSE "denied"

OutcomeOf(r) ==
    IF r.threw THEN "threw" ELSE IF r.allowed THEN "allowed" ELSE "denied"

C7_SubkeyAuthorizedAsOwner ==
    Called("repo_allowed_for_key") =>
        ForKeyOutcome =
            OutcomeOf(repo_allowed_for_key(url_parts, BaseOwner(used_key), keys))

\* the key al__f was let through by the line of al
C7_Witness ==
    /\ PassedForKey
    /\ used_key = N_fork
    /\ url_parts # <<>>
    /\ AclLinesOf = <<A_list>>

(***************************************************************************)
(* C8.  An authenticated request whose global check fails ends with        *)
(* Non-Permissible Repository; one whose global check passes and whose     *)
(* per-identity check fails ends with Non-Permissible Repository for Key,  *)
(* carrying the identity and the requested targets.                        *)
(***************************************************************************)
C8_GlobalErrorBeforeKeyError ==
    (Done /\ Authenticated /\ get_allowed_repos(keys) # <<>>) =>
        LET targets == Targets
            globalOk == AllIn(targets, GlobalAllowList)
        IN  /\ ~globalOk =>
                  response = ErrorResponse("Non-Permissible Repository",
                                           NoText, NoText)
            /\ (/\ globalOk
                /\ MatchingLinesWellFormed(used_key)
                /\ ~AllIn(targets, ResolvedSet(used_key))) =>
                  response =
                      ErrorResponse("Non-Permissible Repository for Key",
                                    used_key, join(targets, <<",", " ">>))

\* Global Allow-List [jsp, zb], a line granting al jsp and x, targets
\* [jsp, zb]: zb is refused for the key
C8_Witness ==
    /\ Done
    /\ used_key = <<"a","l">>
    /\ GlobalAllowList = {L_jsp, L_zb}
    /\ AclLinesOf = <<A_list>>
    /\ url_parts = <<L_jsp, L_zb>>
    /\ response.error = "Non-Permissible Repository for Key"
    /\ response.key = <<"a","l">>
    /\ response.repos = <<"j","s","p",","," ","z","b">>

(***************************************************************************)
(* C9.  Whenever the Global Allow-List is empty, an authenticated request  *)
(* ends with No Permissible Repositories, whatever the per-user            *)
(* configuration and the target list (stated for the requests whose        *)
(* handling throws nothing).                                               *)
(***************************************************************************)
C9_EmptyGlobalListReported ==
    (/\ Done
     /\ Authenticated
     /\ get_allowed_repos(keys) = <<>>
     /\ response.kind # "exception") =>
        response.error = "No Permissible Repositories"

(***************************************************************************)
(* C10.  If the key store answers with a status other than 200, the        *)
(* request ends with Broken GitHub Secrets; if the credential map is       *)
(* empty, with No GitHub Secrets; in both cases the signature verifier is  *)
(* never called, no identity is produced and no comment is posted.         *)
(***************************************************************************)
C10_NoKeysNoAuthentication ==
    (keys_response # <<>> /\
        (keys_response[1].status # StatusOk \/ keys_response[1].variables = <<>>))
    =>  /\ Done
        /\ response.kind = "error"
        /\ response.error =
              IF keys_response[1].status # StatusOk
              THEN "Broken GitHub Secrets" ELSE "No GitHub Secrets"
        /\ ~Called("verify_key")
        /\ tried = <<>>
        /\ ~Authenticated
        /\ commentCalls = <<>>

\* the store answered 200 with no variable
C10_Witness ==
    /\ Done
    /\ keys_response # <<>>
    /\ keys_response[1].status = StatusOk
    /\ keys_response[1].variables = <<>>
    /\ response.error = "No GitHub Secrets"

(***************************************************************************)
(* C11.  Every request handled by handleRequest ends in a returned         *)
(* response that is the serialized Trigger Record or one error object of   *)
(* the taxonomy; no input makes an exception leave the handler.            *)
(***************************************************************************)
ErrorTaxonomy ==
    {"Non-Permissible Origin", "Broken GitHub Secrets", "No GitHub Secrets",
     "Non-Permissible Key", "No Permissible Repositories",
     "Non-Permissible Repository", "Non-Permissible Repository for Key",
     "Non-Permissible Trigger", "Unexpected Request Body",
     "No Branch Provided", "Broken GitHub Comment"}

C11_NoExceptionEscapes ==
    Done =>
        \/ response.kind = "trigger" /\ response.trigger # <<>>
        \/ response.kind = "error" /\ response.error \in ErrorTaxonomy

(***************************************************************************)
(* C12.  The pipeline of one request is linear and non-retrying: the       *)
(* stages run at most once each, in the order header gate, key-store       *)
(* fetch, key resolution, global check, per-identity check, trigger build, *)
(* notifier post; once a stage fails no later stage runs and no earlier    *)
(* one is revisited; at most one key-store fetch and one notifier post are *)
(* made.                                                                   *)
(***************************************************************************)
StageOrder ==
    <<"get_allowed_keys", "verify_key", "repo_allowed",
      "repo_allowed_for_key", "parse_trigger", "post_comment_on_repo">>

\* the number of stages after the gate that have run when a request ends
\* with the given error
StagesRunAt(error) ==
    CASE error = "Non-Permissible Origin" -> 0
      [] error \in {"Broken GitHub Secrets", "No GitHub Secrets"} -> 1
      [] error = "Non-Permissible Key" -> 2
      [] error = "Non-Permissible Repository" -> 3
      [] error = "Non-Permissible Repository for Key" -> 4
      [] error \in {"Non-Permissible Trigger", "Unexpected Request Body",
                    "No Branch Provided"} -> 5
      [] error = "Broken GitHub Comment" -> 6
      [] OTHER -> 7

C12_LinearPipeline ==
    /\ Len(calls) <= Len(StageOrder)
    /\ calls = SubSeq(StageOrder, 1, Len(calls))
    /\ storeCalls <= 1
    /\ storeCalls = (IF Called("get_allowed_keys") THEN 1 ELSE 0)
    /\ Len(commentCalls) <= 1
    /\ Len(commentCalls) = (IF Called("post_comment_on_repo") THEN 1 ELSE 0)
    /\ pc = "gate" => calls = <<>>
    /\ pc \notin {"gate", "done"} => pc = StageOrder[Len(calls) + 1]
    /\ (Done /\ response.kind = "error") =>
           Len(calls) = StagesRunAt(response.error)
    /\ (Done /\ response.kind = "trigger") => Len(calls) = 6

C12_Witness ==
    /\ Done
    /\ calls = StageOrder
    /\ storeCalls = 1
    /\ Len(commentCalls) = 1
    /\ response.error = "Broken GitHub Comment"

(***************************************************************************)
(* Vocabulary of the properties of parse_trigger                           *)
(***************************************************************************)
\* the JSON value of the request's body
PayloadSent == request.body.json

\* the query parameter is given (each is given at most once)
Given(key) ==
    \E i \in 1..Len(request.url.search) : request.url.search[i].key = key

ValueOf(key) ==
    request.url.search[
        CHOOSE i \in 1..Len(request.url.search) :
            request.url.search[i].key = key].value

\* the record parse_trigger returned
Built == trigger_data # <<>>

Record == trigger_data[1]

\* parse_trigger was called with a target list and a payload it can read up
\* to the branch resolution
ReadablePush ==
    /\ Called("parse_trigger")
    /\ url_parts # <<>>
    /\ PayloadSent.type = "object"
    /\ PayloadSent.repository # <<>>

\* the part of a text after its last "/", the whole text when it has none
AfterLastSlash(text) ==
    LET n == CHOOSE n \in 0..Len(text) :
                 /\ \A i \in (Len(text) - n + 1)..Len(text) : text[i] # "/"
                 /\ n = Len(text) \/ text[Len(text) - n] = "/"
    IN  SubSeq(text, Len(text) - n + 1, Len(text))

(***************************************************************************)
(* C13.  Branch resolution in parse_trigger: with a ref in the payload,    *)
(* code_branch is the part of the ref after its last "/" (the whole ref    *)
(* when it has none), whatever main and test are; with no ref and neither  *)
(* main nor test the result is No Branch Provided; with no ref and exactly *)
(* one of main, test, code_branch is that parameter's value.               *)
(***************************************************************************)
C13_BranchResolution ==
    /\ (Built /\ PayloadSent.ref # <<>>) =>
           Record.code_branch = AfterLastSlash(PayloadSent.ref[1])
    /\ (ReadablePush /\ PayloadSent.ref # <<>> /\ PayloadSent.refIsString
        /\ PayloadSent.repository[1].owner # <<>>) => Built
    /\ (ReadablePush /\ PayloadSent.ref = <<>>
        /\ ~Given(S_main) /\ ~Given(S_test)) =>
           /\ ~Built
           /\ Done
           /\ response.error = "No Branch Provided"
    /\ (ReadablePush /\ PayloadSent.ref = <<>>
        /\ Given(S_main) /\ ~Given(S_test)) =>
           Built /\ Record.code_branch = ValueOf(S_main)
    /\ (ReadablePush /\ PayloadSent.ref = <<>>
        /\ ~Given(S_main) /\ Given(S_test)) =>
           Built /\ Record.code_branch = ValueOf(S_test)

C13_Witness ==
    /\ Built
    /\ PayloadSent.ref = <<S_ref_dev>>
    /\ Given(S_main) /\ ValueOf(S_main) = S_main
    /\ Given(S_test) /\ ValueOf(S_test) = S_main
    /\ Record.code_branch = S_dev

\* the name a record starts from: the target_name parameter when it is given,
\* the payload's repository name otherwise
BaseName ==
    IF Given(S_target_name) THEN <<ValueOf(S_target_name)>>
    ELSE PayloadSent.repository[1].name

\* a name that is undefined reads "undefined" in a concatenation
NameText(name) ==
    IF name = <<>> THEN <<"u","n","d","e","f","i","n","e","d">> ELSE name[1]

\* name followed by " (<branch>)"
WithSuffix(name, branch) ==
    <<NameText(name) \o <<" ", "(">> \o branch \o <<")">> >>

C15_SuffixUnlessMainOrTest ==
    Built =>
        LET matchesMain ==
                Given(S_main) /\ ValueOf(S_main) = Record.code_branch
            matchesTest ==
                Given(S_test) /\ ValueOf(S_test) = Record.code_branch
        IN  IF matchesMain \/ matchesTest
            THEN Record.target_name = BaseName
            ELSE Record.target_name = WithSuffix(BaseName, Record.code_branch)

UnderscoresToSpaces(text) ==
    [i \in 1..Len(text) |-> IF text[i] = "_" THEN " " ELSE text[i]]

C17_UnderscoresBecomeSpaces ==
    (Built /\ Given(S_target_name)) =>
        LET name == UnderscoresToSpaces(ValueOf(S_target_name))
        IN  /\ Len(Record.target_name[1]) >= Len(name)
            /\ SubSeq(Record.target_name[1], 1, Len(name)) = name

\* the labels separated by commas, in their order
RECURSIVE CommaJoined(_)
CommaJoined(labels) ==
    IF Len(labels) = 0 THEN <<>>
    ELSE CommaJoined(SubSeq(labels, 1, Len(labels) - 1))
         \o (IF Len(labels) > 1 THEN <<",">> ELSE <<>>)
         \o labels[Len(labels)]

(***************************************************************************)
(* C18.  parse_trigger fails with Non-Permissible Trigger whenever the     *)
(* target list parsed from the path is empty, and then no notifier post is *)
(* made; a Trigger Record is only ever built with at least one target      *)
(* label, and its target_repo is the labels joined by commas in path order *)
(* with duplicates kept.                                                   *)
(***************************************************************************)
C18_EmptyTargetsNoTrigger ==
    /\ (Called("parse_trigger") /\ url_parts = <<>>) =>
           /\ Done
           /\ response.error = "Non-Permissible Trigger"
           /\ ~Built
           /\ commentCalls = <<>>
           /\ ~Called("post_comment_on_repo")
    /\ Built =>
           /\ Len(url_parts) >= 1
           /\ Record.target_repo = CommaJoined(url_parts)

C18_Witness ==
    /\ Built
    /\ url_parts = <<L_jsp, L_jsp>>
    /\ Record.target_repo = <<"j","s","p",",","j","s","p">>

(***************************************************************************)
(* C19.  get_url_parts is a function of the path alone: it strips a        *)
(* leading and a trailing "/", lower-cases, splits on "/", and returns the *)
(* empty sequence when no segment equals "trigger" or when the first       *)
(* "trigger" segment is the last one; otherwise it returns, in order,      *)
(* every non-empty segment after the first "trigger" segment.  Its result  *)
(* never holds an empty segment nor one with an upper-case letter, and a   *)
(* second call on the same path gives the same result.                     *)
(***************************************************************************)
Segments(path) == split(toLowerCase(stripSlashes(path)), <<"/">>)

ExpectedParts(path) ==
    LET segs == Segments(path)
        hits == {i \in 1..Len(segs) : segs[i] = S_trigger}
        first == CHOOSE i \in hits : \A j \in hits : i <= j
    IN  IF hits = {} THEN <<>>
        ELSE IF first = Len(segs) THEN <<>>
        ELSE SelectSeq(SubSeq(segs, first + 1, Len(segs)),
                       LAMBDA seg : seg # <<>>)

C19_PathParsing ==
    /\ Called("repo_allowed") =>
           /\ url_parts = ExpectedParts(request.url.pathname)
           /\ \A i \in 1..Len(url_parts) :
                  /\ url_parts[i] # <<>>
                  /\ \A k \in 1..Len(url_parts[i]) :
                         url_parts[i][k] \notin UpperSet
    /\ Called("parse_trigger") =>
           (url_parts = <<>> <=> response.error = "Non-Permissible Trigger")
    /\ Built => Record.target_repo = CommaJoined(url_parts)

C19_Witness ==
    /\ Called("repo_allowed")
    /\ request.url.pathname = P_mixed
    /\ url_parts = <<L_jsp>>

(***************************************************************************)
(* C20.  The github_comment_made field is present in the response to the   *)
(* caller if and only if the notifier post returned status 201; when the   *)
(* notifier returns any other status the caller receives Broken GitHub     *)
(* Comment and not the Trigger Record; apart from that one late-added      *)
(* field no field of the Trigger Record changes after parse_trigger        *)
(* returns it.                                                             *)
(***************************************************************************)
WithoutComment(record) == [record EXCEPT !.github_comment_made = <<>>]

C20_CommentFieldOnlyOnCreated ==
    /\ Called("post_comment_on_repo") =>
           /\ Done
           /\ comment_response # <<>>
           /\ IF comment_response[1].status = StatusCreated
              THEN /\ response.kind = "trigger"
                   /\ response.trigger = trigger_data
                   /\ Record.github_comment_made # <<>>
              ELSE /\ response.kind = "error"
                   /\ response.error = "Broken GitHub Comment"
                   /\ response.trigger = <<>>
                   /\ Record.github_comment_made = <<>>
    /\ ~Called("post_comment_on_repo") =>
           /\ response.kind # "trigger"
           /\ comment_response = <<>>
           /\ Built => Record.github_comment_made = <<>>
    /\ Built =>
           /\ WithoutComment(Record) =
                  parse_trigger(used_key, request.url, PayloadSent).trigger[1]
           /\ commentCalls # <<>> => commentCalls[1] = WithoutComment(Record)

C20_Witness ==
    /\ Done
    /\ comment_response # <<>>
    /\ comment_response[1].status = StatusCreated
    /\ response.kind = "trigger"
    /\ response.trigger[1].github_comment_made = << <<"c">> >>

(***************************************************************************)
(* Vocabulary of the properties of the key map and of verify_key           *)
(***************************************************************************)
\* the positions of the credentials (the entries that are no meta-entry) in
\* the key map
CredentialPositions == {i \in 1..Len(keys) : ~IsMetaName(keys[i].name)}

\* the signature header is the HMAC, under the entry's value, of the payload
\* verify_key is given
VerifiesAt(i) ==
    request.headers.sig[1].tag =
        <<Hmac(keys[i].value, stringify(request.body))>>

\* the names of the credentials at the positions up to last, in order
CredentialNamesUpTo(last) ==
    LET positions == SelectSeq([i \in 1..Len(keys) |-> i],
                               LAMBDA i : i \in CredentialPositions /\ i <= last)
    IN  [k \in 1..Len(positions) |-> keys[positions[k]].name]

(***************************************************************************)
(* C22.  verify_key tries the non-meta credentials in the insertion order  *)
(* of the key-store response and stops at the first one whose signature    *)
(* verifies: the identity returned is the lower-cased name of the first    *)
(* verifying entry, no entry after it is passed to the signature verifier, *)
(* and when no entry verifies the result is Non-Permissible Key.           *)
(***************************************************************************)
C22_FirstVerifyingCredentialWins ==
    Called("verify_key") =>
        LET verifying == {i \in CredentialPositions : VerifiesAt(i)}
            first == CHOOSE i \in verifying : \A j \in verifying : i <= j
        IN  IF verifying # {}
            THEN /\ used_key = toLowerCase(keys[first].name)
                 /\ tried = CredentialNamesUpTo(first)
            ELSE /\ Done
                 /\ response.error = "Non-Permissible Key"
                 /\ used_key = NoText
                 /\ tried = CredentialNamesUpTo(Len(keys))

(***************************************************************************)
(* C25.  get_allowed_keys stores every variable of the key-store response  *)
(* under its name in Capitalized form: first letter upper-case, remainder  *)
(* lower-case ("alice" and "ALICE" are both stored as "Alice").            *)
(***************************************************************************)
UpperChar(c) ==
    IF \E u \in UpperSet : LowerOf[u] = c
    THEN CHOOSE u \in UpperSet : LowerOf[u] = c
    ELSE c

Capitalized(name) ==
    IF name = <<>> THEN <<>>
    ELSE <<UpperChar(name[1])>> \o toLowerCase(SubSeq(name, 2, Len(name)))

C25_NamesStoredCapitalized ==
    (keys_response # <<>> /\ keys # <<>>) =>
        LET variables == keys_response[1].variables
        IN  /\ \A i \in 1..Len(variables) :
                   \E k \in 1..Len(keys) :
                       keys[k].name = Capitalized(variables[i].name)
            /\ \A k \in 1..Len(keys) :
                   \E i \in 1..Len(variables) :
                       keys[k].name = Capitalized(variables[i].name)

(***************************************************************************)
(* C26.  In every execution of handleRequest, post_comment_on_repo is      *)
(* called only if verify_key returned an identity, the target list is not  *)
(* empty, every target label is in the Global Allow-List parsed from       *)
(* ALLOWED_REPOS, and every target label is in the set resolved for the    *)
(* identity's base owner from ALLOWED_REPOS_FOR_USERS.                     *)
(***************************************************************************)
C26_PostOnlyWhenAuthorized ==
    Called("post_comment_on_repo") =>
        /\ Authenticated
        /\ url_parts # <<>>
        /\ AllIn(url_parts, GlobalAllowList)
        /\ AllIn(url_parts, ResolvedSet(used_key))

(***************************************************************************)
(* C28.  When the payload has no ref and both the main and the test query  *)
(* parameter are present, code_branch is the value of main (main overrides *)
(* test), branch_main is main, branch_test is test, and target_name gets   *)
(* no suffix.                                                              *)
(***************************************************************************)
C28_MainOverridesTest ==
    (ReadablePush /\ PayloadSent.ref = <<>>
     /\ PayloadSent.repository[1].owner # <<>>
     /\ Given(S_main) /\ Given(S_test)) =>
        /\ Built
        /\ Record.code_branch = ValueOf(S_main)
        /\ Record.branch_main = <<ValueOf(S_main)>>
        /\ Record.branch_test = <<ValueOf(S_test)>>
        /\ Record.target_name = BaseName

C28_Witness ==
    /\ Built
    /\ PayloadSent.ref = <<>>
    /\ Given(S_main) /\ ValueOf(S_main) = S_main
    /\ Given(S_test) /\ ValueOf(S_test) = S_dev
    /\ Record.code_branch = S_main
    /\ Record.target_name = << <<"r">> >>

(***************************************************************************)
(* C29.  When two variables of the key-store response are stored under the *)
(* same name, the credential map holds one entry under that name, whose    *)
(* value is that of the later variable, at the iteration position of the   *)
(* earlier one; the earlier variable's secret can then no longer           *)
(* authenticate any request.                                               *)
(***************************************************************************)
\* two variable names that get_allowed_keys stores under one name
SameStoredName(a, b) ==
    /\ Len(a) = Len(b)
    /\ a # <<>> => a[1] = b[1]
    /\ \A i \in 2..Len(a) : LowerChar(a[i]) = LowerChar(b[i])

StoreVariables == keys_response[1].variables

\* the variable is the first of the response with its stored name
FirstOfItsName(i) ==
    \A j \in 1..(i - 1) :
        ~SameStoredName(StoreVariables[j].name, StoreVariables[i].name)

\* the variable is the last of the response with its stored name
LastOfItsName(i) ==
    \A j \in (i + 1)..Len(StoreVariables) :
        ~SameStoredName(StoreVariables[j].name, StoreVariables[i].name)

\* the position in the map of the name the variable is stored under
MapPosition(i) ==
    Cardinality({j \in 1..i :
        /\ FirstOfItsName(j)
        /\ \E k \in j..i : /\ FirstOfItsName(k)
                           /\ SameStoredName(StoreVariables[k].name,
                                             StoreVariables[i].name)
                           /\ j <= k})

\* the secrets of the response that a later variable of the same stored name
\* replaced and that no entry of the map holds
ReplacedSecrets ==
    {StoreVariables[i].value : i \in {j \in 1..Len(StoreVariables) :
                                          ~LastOfItsName(j)}}
    \ {keys[k].value : k \in 1..Len(keys)}

C29_LaterDuplicateReplacesInPlace ==
    (keys_response # <<>> /\ keys # <<>>) =>
        /\ Len(keys) =
               Cardinality({i \in 1..Len(StoreVariables) : FirstOfItsName(i)})
        /\ \A k, l \in 1..Len(keys) : keys[k].name = keys[l].name => k = l
        /\ \A i \in 1..Len(StoreVariables) :
               LastOfItsName(i) =>
                   /\ SameStoredName(keys[MapPosition(i)].name,
                                     StoreVariables[i].name)
                   /\ keys[MapPosition(i)].value = StoreVariables[i].value
        /\ (Called("verify_key")
            /\ \E s \in ReplacedSecrets :
                   request.headers.sig[1].tag =
                       <<Hmac(s, stringify(request.body))>>) =>
               /\ ~Authenticated
               /\ response.error = "Non-Permissible Key"

C29_Witness ==
    /\ Called("verify_key")
    /\ keys_response[1].variables = DuplicateVariables
    /\ keys = <<[name |-> N_Al, value |-> K_later],
                [name |-> N_fork, value |-> K_fork]>>
    /\ request.headers.sig[1].tag = <<Hmac(K_al, stringify(request.body))>>
    /\ response.error = "Non-Permissible Key"

(***************************************************************************)
(* C24.  The HMAC-SHA256 is computed over the payload bytes exactly as     *)
(* received: a request authenticates if and only if its signature header   *)
(* is the HMAC of the received body bytes under some credential, so two    *)
(* bodies that differ as byte strings but parse to the same JSON value are *)
(* not interchangeable under one signature.                                *)
(***************************************************************************)
SignedOverReceivedBytes ==
    \E i \in CredentialPositions :
        request.headers.sig[1].tag = <<Hmac(keys[i].value, request.body)>>

C24_SignatureOverReceivedBytes ==
    (Called("verify_key") /\ Done) =>
        (Authenticated <=> SignedOverReceivedBytes)

(***************************************************************************)
(* C27.  The origin gate and the path parser disagree on what "trigger"    *)
(* means: the gate passes when the whole URL, case-sensitively, contains   *)
(* the text "trigger", the parser needs a whole path segment equal to      *)
(* "trigger" after lower-casing.  A request with valid headers to          *)
(* /TRIGGER/jsp ends with Non-Permissible Origin without any key-store     *)
(* fetch; a request to /triggers/jsp or /x?y=trigger passes the gate,      *)
(* makes a key-store fetch and, once authenticated, ends with              *)
(* Non-Permissible Trigger.                                                *)
(***************************************************************************)
TriggerOnlyAsText ==
    \/ request.url.pathname = P_triggers
    \/ request.url.pathname = P_x /\ request.url.search = QueryTrigger

C27_GateAndParserDisagree ==
    /\ (~MalformedHeaders(request) /\ request.url.pathname = P_upper
        /\ pc # "gate") =>
           /\ Done
           /\ response.error = "Non-Permissible Origin"
           /\ storeCalls = 0
    /\ (~MalformedHeaders(request) /\ TriggerOnlyAsText /\ pc # "gate") =>
           /\ pc # "get_allowed_keys" => storeCalls = 1
           /\ response.error # "Non-Permissible Origin"
           /\ (Authenticated /\ Done) =>
                  response.error = "Non-Permissible Trigger"

(***************************************************************************)
(* C23.  verifySignature never throws: whatever the signature header and   *)
(* the stored value it is tried against, a failure inside the verifier     *)
(* counts as "not verified", so a request whose body was read and whose    *)
(* last stage is key verification does not end with an exception.          *)
(***************************************************************************)
C23_VerifySignatureNeverThrows ==
    (Done /\ calls = <<"get_allowed_keys", "verify_key">>) =>
        response.kind # "exception"

(***************************************************************************)
(* C30.  Every request terminates with a returned response: when the key   *)
(* store, the body read and the comment endpoint return, the request       *)
(* reaches, after finitely many steps, the end of the handler with a       *)
(* response in hand - the 405 answer of fetch, given at once and without   *)
(* any stage of the pipeline, for a method other than GET and POST.  No    *)
(* stage runs after the end of the handler, so a request that ended        *)
(* without a returned response never reaches one.                          *)
(***************************************************************************)
ReturnedResponse ==
    IF request.method \in HandledMethods
    THEN response.kind \in {"error", "trigger"}
    ELSE response = MethodNotAllowed /\ calls = <<>> /\ storeCalls = 0

C30_EveryRequestReturns == Done => ReturnedResponse

(***************************************************************************)
(* C21.  Concurrent requests are independent: however the stages of two    *)
(* requests are interleaved, a finished request has the response and has   *)
(* made the calls to the comment endpoint that it has when it runs alone   *)
(* and is given the same answers by the key store and the comment          *)
(* endpoint; and no binding of the module is ever written.                 *)
(***************************************************************************)
\* the answer a call was given, or any answer when it never asked
AnswerOr(given, answers) ==
    IF given # <<>> THEN given[1] ELSE CHOOSE a \in answers : TRUE

\* the call run to its end with nothing else in the isolate
RECURSIVE RunAlone(_, _, _)
RunAlone(st, store_answer, comment_answer) ==
    IF st.pc = "done" THEN st
    ELSE RunAlone(handleRequest(st, ModuleBindings, store_answer,
                                comment_answer),
                  store_answer, comment_answer)

Alone(st) ==
    RunAlone(Started(st.request),
             AnswerOr(st.store, ConcurrentStoreResponses),
             AnswerOr(st.comment, CommentResponses))

C21_ConcurrentRequestsIndependent ==
    /\ isolate.module = ModuleBindings
    /\ \A i \in DOMAIN isolate.requests :
          LET st == isolate.requests[i]
          IN  st.pc = "done" =>
                  /\ st.response = Alone(st).response
                  /\ st.posted = Alone(st).posted
                  /\ st.fetched = Alone(st).fetched

\* one request has ended with its comment posted while the other, for
\* other targets, is suspended at the comment endpoint
C21_Witness ==
    /\ Len(isolate.requests) = 2
    /\ isolate.requests[1].pc = "done"
    /\ isolate.requests[1].response.kind = "trigger"
    /\ isolate.requests[2].pc = "post_comment_on_repo"
    /\ isolate.requests[1].url_parts # isolate.requests[2].url_parts

=============================================================================
